---- MODULE Spec2Model ----
(***************************************************************************)
(* Model of hexrd's eta-omega map aggregation                              *)
(* (hexrd/instrument/eta_omega.py, class GenerateEtaOmeMaps), of the       *)
(* image-series facade and frame reader of hexrd/xrd/image_io.py           *)
(* (_OmegaImageSeries, ReadGE) and of the grain driver                     *)
(* scripts/pull_spots_mp.py (read_frames, process_grain, main program).    *)
(*                                                                         *)
(* Conventions                                                             *)
(*  - Python lists and numpy arrays are TLA+ sequences; Python index k is   *)
(*    position k+1.  Ring indices (HKL ids) keep their 0-based values.      *)
(*  - A 2D array is a sequence of rows, each a sequence of cells.           *)
(*  - A cell holds NaN or a non-negative float.  Floats are binary          *)
(*    floating-point numbers with PrecBits bits of significand and          *)
(*    round-to-nearest-even addition (numpy float64 has 53 bits; the        *)
(*    model scales the width down).                                         *)
(*  - Angles in degrees are integers.  An angle in radians is the integer   *)
(*    k standing for k*pi/360, so np.radians(d) is 2*d.                     *)
(***************************************************************************)
EXTENDS Integers, Sequences, FiniteSets, TLC

VARIABLES
    args,           \* the constructor's arguments and its collaborators' answers
    pc,             \* position inside GenerateEtaOmeMaps.__init__
    n_rings,        \* local n_rings
    eta_mapping,    \* local eta_mapping: panel key -> list of ring maps
    etas,           \* local etas (extractor's bin centers)
    det_key,        \* local det_key (also the inner loop's variable)
    data_store,     \* local data_store
    i_ring,         \* outer loop variable
    attrs,          \* names of the attributes assigned on self so far
    _iHKLList, _dataStore, _omegas, _omeEdges, _etas, _etaEdges,
    result,         \* what the caller of the constructor holds
    error,          \* the exception that left __init__, if any
    omis,           \* an _OmegaImageSeries instance (image_io.py)
    omis_pc,        \* its life cycle
    omis_ret,       \* value returned by the last accessor call on it
    plane_data,     \* the plane-data model the aggregator refers to
    ret,            \* what the last call on the constructed aggregator returned
    files,          \* the file system: file name -> archive
    iFrame,         \* ReadGE.iFrame: counter of the last frame read
    rd_nframes,     \* number of frames of the reader's image series
    calls,          \* the calls of ReadGE.read made so far, with what they returned
    rf_pc,          \* position inside read_frames (pull_spots_mp.py)
    rf_nframes,     \* read_frames' local nframes
    frame_list,     \* read_frames' local frame_list
    nquats,         \* number of orientations, one job each (pull_spots_mp.py)
    ncpus,          \* what get_ncpus returned
    wk,             \* per process: position inside process_grain, its jobs
    next_chunk,     \* the next chunk of jobs the pool hands out
    job_state,      \* per job: queued, running or done
    open_w,         \* the file handles currently open for writing
    writes,         \* every write made so far: file, job and process
    disk,           \* the driver's files: name -> content
    reader_ops,     \* the accesses the jobs made to the shared frame data
    completed,      \* the jobs in the order the main loop saw them finish
    main_pc,        \* position of the main program
    merge_jobnum,   \* loop variable of the merge pass
    merge_reads,    \* the grain-data files the merge pass loaded, in order
    grains_out      \* the lines of the combined grains file (grain ids)

ctor_vars == <<args, pc, n_rings, eta_mapping, etas, det_key, data_store, i_ring,
               attrs, _iHKLList, _dataStore, _omegas, _omeEdges, _etas, _etaEdges,
               result, error>>
omis_vars == <<omis, omis_pc, omis_ret>>
use_vars == <<plane_data, ret, files>>
rdr_vars == <<iFrame, rd_nframes, calls, rf_pc, rf_nframes, frame_list>>
drv_vars == <<nquats, ncpus, wk, next_chunk, job_state, open_w, writes, disk,
              reader_ops, completed, main_pc, merge_jobnum, merge_reads, grains_out>>
not_ctor == <<omis_vars, use_vars, rdr_vars, drv_vars>>
not_omis == <<ctor_vars, use_vars, rdr_vars, drv_vars>>
not_use == <<omis_vars, rdr_vars, drv_vars>>
not_rdr == <<ctor_vars, omis_vars, use_vars, drv_vars>>
not_drv == <<ctor_vars, omis_vars, use_vars, rdr_vars>>
vars == <<ctor_vars, omis_vars, use_vars, rdr_vars, drv_vars>>

-----------------------------------------------------------------------------
(* Bounds of the model *)

MaxPanels == 3
MaxRings == 2
MaxFrames == 2
MaxEta == 2
MaxData == 2
PrecBits == 3
MaxSeries == 4
MaxSkip == 1
MaxRead == 3
MaxCalls == 4
MaxQuats == 3
MaxCpus == 2

-----------------------------------------------------------------------------
(* Floating point and numpy helpers *)

\* np.nan, the missing-data sentinel (data values are >= 0 in the model)
NaN == -1

IsNaN(x) == x = NaN

RECURSIVE Pow2(_)
Pow2(n) == IF n = 0 THEN 1 ELSE 2 * Pow2(n - 1)

\* the power of two u such that x \div u has exactly PrecBits bits
RECURSIVE Ulp(_, _)
Ulp(x, u) == IF x \div u < Pow2(PrecBits) THEN u ELSE Ulp(x, 2 * u)

\* round-to-nearest, ties-to-even, of a non-negative real given as an integer
Round(x) ==
    LET u == Ulp(x, 1)
        q == x \div u
        r == x % u
    IN  IF 2 * r < u THEN q * u
        ELSE IF 2 * r > u THEN (q + 1) * u
        ELSE IF q % 2 = 0 THEN q * u ELSE (q + 1) * u

\* float addition of two non-NaN floats (the += of line 67)
FAdd(a, b) == Round(a + b)

Shape(m) == <<Len(m), Len(m[1])>>

ones_like(m) == [i \in 1..Len(m) |-> [j \in 1..Len(m[i]) |-> 1]]

\* np.zeros_like(m)
zeros_like(m) == [i \in 1..Len(m) |-> [j \in 1..Len(m[i]) |-> 0]]

\* ~np.isnan(m)
NotNanMask(m) == [i \in 1..Len(m) |-> [j \in 1..Len(m[i]) |-> ~IsNaN(m[i][j])]]

\* numpy's rule for assigning an array of shape s into a slot of shape t
CanBroadcast(s, t) == /\ s[1] = t[1] \/ s[1] = 1
                      /\ s[2] = t[2] \/ s[2] = 1

Broadcast(mask, t) ==
    [i \in 1..t[1] |-> [j \in 1..t[2] |->
        mask[IF Len(mask) = 1 THEN 1 ELSE i][IF Len(mask[1]) = 1 THEN 1 ELSE j]]]

-----------------------------------------------------------------------------
(* The aggregation of one ring, lines 59-70 *)

NoError == "none"

AddPanelAssign(st, m, strict) ==
    [full_map |-> [i \in 1..Len(m) |-> [j \in 1..Len(m[i]) |->
                      IF ~IsNaN(m[i][j]) THEN m[i][j] ELSE st.full_map[i][j]]],
     nan_mask_full |-> Append(st.nan_mask_full, NotNanMask(m)),
     err |-> st.err]

\* lines 65-67 with their numpy failure modes.  Line 66 raises ValueError
\* when the panel's mask cannot be broadcast into its slot.  At line 67 a
\* strict numpy (1.13 and later) raises IndexError for a boolean index whose
\* shape differs from the array's; an older numpy indexes with the mask's own
\* nonzero positions and goes on.
AddPanel(st, m, strict) ==
    LET t == Shape(st.full_map)
        s == Shape(m)
        nan_mask == NotNanMask(m)
    IN  IF st.err # NoError THEN st
        ELSE IF ~CanBroadcast(s, t) THEN [st EXCEPT !.err = "ValueError"]
        ELSE IF strict /\ s # t THEN [st EXCEPT !.err = "IndexError"]
        ELSE [full_map |-> [i \in 1..t[1] |-> [j \in 1..t[2] |->
                              IF i <= s[1] /\ j <= s[2] /\ nan_mask[i][j]
                              THEN FAdd(st.full_map[i][j], m[i][j])
                              ELSE st.full_map[i][j]]],
              nan_mask_full |-> Append(st.nan_mask_full, Broadcast(nan_mask, t)),
              err |-> NoError]

\* the inner loop of lines 64-68 over the panels in dict iteration order
RECURSIVE PanelLoop(_, _, _, _, _)
PanelLoop(st, order, mapping, k, strict) ==
    IF order = <<>> THEN st
    ELSE PanelLoop(AddPanel(st, mapping[Head(order)][k], strict),
                   Tail(order), mapping, k, strict)

\* lines 69-70: cells no panel has data for go back to NaN
ReNanKeepZero(st) == st.full_map

ReNan(st) ==
    [i \in 1..Len(st.full_map) |-> [j \in 1..Len(st.full_map[i]) |->
        IF Cardinality({p \in 1..Len(st.nan_mask_full) : st.nan_mask_full[p][i][j]}) = 0
        THEN NaN ELSE st.full_map[i][j]]]

\* lines 59-70 for ring position k, reference panel ref
RingMap(ref, order, mapping, k, strict) ==
    LET st0 == [full_map |-> zeros_like(mapping[ref][k]),
                nan_mask_full |-> <<>>, err |-> NoError]
        st == PanelLoop(st0, order, mapping, k, strict)
    IN  IF st.err # NoError THEN [err |-> st.err, full_map |-> <<>>]
        ELSE [err |-> NoError, full_map |-> ReNan(st)]

-----------------------------------------------------------------------------
(* Collaborators of the constructor *)

Last(s) == s[Len(s)]

Range(s) == {s[k] : k \in 1..Len(s)}

rangeFromOne(n) == [k \in 1..n |-> k]

\* Python 2 range(n): the list 0, 1, ..., n-1
range(n) == [k \in 1..n |-> k - 1]

\* np.radians(d), in units of pi/360
Radians(d) == 2 * d

\* 2*pi in the same units
TwoPi == Radians(360)

\* transforms_CAPI.mapAngle(ang, range) for one angle and a range of one full
\* period: the angle is reduced modulo the period, above the range's lower end
MapAngle(ang, rng) == ((ang - rng[1]) % TwoPi) + rng[1]

\* the rings the extractor is asked for (active_hkls, or every ring)
RequestedRings(a) ==
    IF a.active_hkls.isNone THEN [k \in 1..a.nTTh |-> k - 1] ELSE a.active_hkls.list

\* instrument.extract_polar_maps: for every panel key the list of the
\* requested rings' polar maps, in the order requested
extract_polar_maps(a) ==
    [key \in Range(a.order) |->
        [k \in 1..Len(RequestedRings(a)) |-> a.polar[key][RequestedRings(a)[k]]]]

-----------------------------------------------------------------------------
(* GenerateEtaOmeMaps.__init__ *)

\* what the expression GenerateEtaOmeMaps(...) leaves with its caller when
\* __init__ ends with exception err (NoError: it returned)
CallerGetsAnyway(err) == "object"

CallerGets(err) == IF err = NoError THEN "object" ELSE "exception"

Raise(e) ==
    /\ pc' = "raised"
    /\ error' = e
    /\ result' = CallerGets(e)

\* lines 36-45
SelectRings ==
    /\ pc = "select"
    /\ IF args.active_hkls.isNone
       THEN /\ n_rings' = args.nTTh
            /\ _iHKLList' = range(args.nTTh)
       ELSE /\ _iHKLList' = args.active_hkls.list
            /\ n_rings' = Len(args.active_hkls.list)
    /\ attrs' = attrs \cup {"_planeData", "_iHKLList"}
    /\ pc' = "extract"
    /\ UNCHANGED <<args, eta_mapping, etas, det_key, data_store, i_ring,
                   _dataStore, _omegas, _omeEdges, _etas, _etaEdges, result, error>>
    /\ UNCHANGED not_ctor

\* lines 48-57: the extractor call, the first panel key, the empty list
ExtractPolarMaps ==
    /\ pc = "extract"
    /\ IF args.extractor_raises
       THEN /\ Raise("ExtractionFailure")
            /\ UNCHANGED <<eta_mapping, etas, det_key, data_store, i_ring>>
       ELSE /\ eta_mapping' = extract_polar_maps(args)
            /\ etas' = args.etas
            /\ det_key' = args.order[1]
            /\ data_store' = <<>>
            /\ i_ring' = 0
            /\ pc' = "ring"
            /\ UNCHANGED <<result, error>>
    /\ UNCHANGED <<args, n_rings, attrs, _iHKLList, _dataStore, _omegas, _omeEdges,
                   _etas, _etaEdges>>
    /\ UNCHANGED not_ctor

\* lines 58-71: one pass of the outer loop
AggregateRing ==
    /\ pc = "ring"
    /\ i_ring < n_rings
    /\ LET rm == RingMap(det_key, args.order, eta_mapping, i_ring + 1,
                         args.numpy_strict)
       IN  IF rm.err # NoError
           THEN /\ Raise(rm.err)
                /\ UNCHANGED <<data_store, i_ring, det_key>>
           ELSE /\ data_store' = Append(data_store, rm.full_map)
                /\ det_key' = Last(args.order)
                /\ i_ring' = i_ring + 1
                /\ UNCHANGED <<pc, result, error>>
    /\ UNCHANGED <<args, n_rings, eta_mapping, etas, attrs, _iHKLList, _dataStore,
                   _omegas, _omeEdges, _etas, _etaEdges>>
    /\ UNCHANGED not_ctor

\* line 72, once the loop is exhausted
StoreDataStore ==
    /\ pc = "ring"
    /\ i_ring >= n_rings
    /\ _dataStore' = data_store
    /\ attrs' = attrs \cup {"_dataStore"}
    /\ pc' = "omega"
    /\ UNCHANGED <<args, n_rings, eta_mapping, etas, det_key, data_store, i_ring,
                   _iHKLList, _omegas, _omeEdges, _etas, _etaEdges, result, error>>
    /\ UNCHANGED not_ctor

FrameStarts(omegas_array) ==
    [i \in 1..Len(omegas_array) |-> omegas_array[i][1]]

\* np.average(omegas_array, axis=1), in degrees
Midpoints(omegas_array) ==
    [i \in 1..Len(omegas_array) |-> (omegas_array[i][1] + omegas_array[i][2]) \div 2]

StartsOnly(omegas_array) ==
    [i \in 1..Len(omegas_array) |-> omegas_array[i][1]]

\* np.r_[omegas_array[:, 0], omegas_array[-1, 1]]
StartsThenLastEnd(omegas_array) ==
    Append([i \in 1..Len(omegas_array) |-> omegas_array[i][1]],
           Last(omegas_array)[2])

\* mapAngle(np.radians(x)) over an array x: without the period argument
\* mapAngle maps into its default range of -pi to pi
MapAllDefaultRange(x, ome_period) ==
    [i \in 1..Len(x) |-> MapAngle(Radians(x[i]), <<Radians(-180), Radians(180)>>)]

\* mapAngle(np.radians(x), np.radians(ome_period)) over an array x
MapAll(x, ome_period) ==
    [i \in 1..Len(x) |->
        MapAngle(Radians(x[i]), <<Radians(ome_period[1]), Radians(ome_period[2])>>)]

\* lines 75-83
HandleOmegas ==
    /\ pc = "omega"
    /\ LET metadata == args.image_series_dict[det_key]
       IN  IF "omega" \notin DOMAIN metadata
           THEN /\ Raise("KeyError")
                /\ UNCHANGED <<attrs, _omegas, _omeEdges>>
           ELSE /\ _omegas' = MapAll(Midpoints(metadata.omega), args.ome_period)
                /\ _omeEdges' = MapAll(StartsThenLastEnd(metadata.omega),
                                       args.ome_period)
                /\ attrs' = attrs \cup {"_omegas", "_omeEdges"}
                /\ pc' = "eta"
                /\ UNCHANGED <<result, error>>
    /\ UNCHANGED <<args, n_rings, eta_mapping, etas, det_key, data_store, i_ring,
                   _iHKLList, _dataStore, _etas, _etaEdges>>
    /\ UNCHANGED not_ctor

FullWidth(eta_step) == Radians(eta_step)

\* 0.5*np.radians(eta_step)
HalfWidth(eta_step) == Radians(eta_step) \div 2

\* np.r_[etas - h, etas[-1] + h]
EtaEdges(e, h) == Append([j \in 1..Len(e) |-> e[j] - h], Last(e) + h)

\* lines 88-91, and the return of __init__
HandleEtas ==
    /\ pc = "eta"
    /\ _etas' = etas
    /\ _etaEdges' = EtaEdges(etas, HalfWidth(args.eta_step))
    /\ attrs' = attrs \cup {"_etas", "_etaEdges"}
    /\ pc' = "done"
    /\ error' = NoError
    /\ result' = CallerGets(NoError)
    /\ UNCHANGED <<args, n_rings, eta_mapping, etas, det_key, data_store, i_ring,
                   _iHKLList, _dataStore, _omegas, _omeEdges>>
    /\ UNCHANGED not_ctor

\* the iHKLList property, line 103 (a flat list becomes the array of its items)
iHKLList == [k \in 1..Len(_iHKLList) |-> _iHKLList[k]]

\* lines 56-72 as a whole: the data store built when the dict iterates in
\* `order` (the reference panel is the first key for the first ring and the
\* last key visited afterwards)
ConstructedDataStore(order, mapping, n, strict) ==
    [k \in 1..n |->
        RingMap(IF k = 1 THEN order[1] ELSE Last(order), order, mapping, k, strict)]

-----------------------------------------------------------------------------
(* The constructed aggregator: properties and save, lines 93-143 *)

\* plane_data.getParams(): the parameter tuple of the model, which the call
\* leaves as it is
getParams(pd) == <<pd.lparms, pd.laueGroup, pd.wavelength, pd.strainMag, pd.tThWidth>>

\* valWUnit('wavelength', 'length', v, 'angstrom'), line 131; a plain number
\* is the record with the one field `value`
valWUnit(name, kind, v, unit) ==
    [name |-> name, kind |-> kind, value |-> v.value, unit |-> unit]

\* lines 130-131: np.array(...) builds a new array from the tuple, [:4] is a
\* view of that new array, and the item assignment lands in it; `model` is
\* the plane-data model after the two lines, `args` the local array
TaggedParamsInPlace(pd) ==
    LET tagged == valWUnit("wavelength", "length", pd.wavelength, "angstrom")
    IN  [model |-> [pd EXCEPT !.wavelength = tagged],
         args |-> [SubSeq(getParams(pd), 1, 4) EXCEPT ![3] = tagged]]

TaggedParams(pd) ==
    LET a == SubSeq(getParams(pd), 1, 4)
    IN  [model |-> pd,
         args |-> [a EXCEPT ![3] = valWUnit("wavelength", "length", a[3], "angstrom")]]

\* what np.savez stores for a value: np.asanyarray of it, as shape and
\* row-major buffer.  A list of equally shaped 2D arrays is one 3D array, an
\* empty list an array of shape (0,)
asarray1(x) == [shape |-> <<Len(x)>>, data |-> x]

asarray3(l) ==
    IF l = <<>> THEN [shape |-> <<0>>, data |-> <<>>]
    ELSE LET n == Len(l)
             r == Len(l[1])
             c == IF r = 0 THEN 0 ELSE Len(l[1][1])
         IN  [shape |-> <<n, r, c>>,
              data |-> [q \in 1..(n * r * c) |->
                          l[((q - 1) \div (r * c)) + 1]
                           [(((q - 1) % (r * c)) \div c) + 1]
                           [((q - 1) % c) + 1]]]

\* lines 133-140 without the planeData_hkls entry
save_dict_no_hkls(o, a, hkls) ==
    [dataStore |-> asarray3(o.dataStore), etas |-> asarray1(o.etas),
     etaEdges |-> asarray1(o.etaEdges), iHKLList |-> asarray1(o.iHKLList),
     omegas |-> asarray1(o.omegas), omeEdges |-> asarray1(o.omeEdges),
     planeData_args |-> a]

\* lines 133-140: the dictionary handed to np.savez_compressed, each value as
\* the array the archive stores for it
save_dict(o, a, hkls) ==
    [dataStore |-> asarray3(o.dataStore), etas |-> asarray1(o.etas),
     etaEdges |-> asarray1(o.etaEdges), iHKLList |-> asarray1(o.iHKLList),
     omegas |-> asarray1(o.omegas), omeEdges |-> asarray1(o.omeEdges),
     planeData_args |-> a, planeData_hkls |-> hkls]

\* np.savez_compressed appends '.npz' to a name that does not end with it
HasNpzSuffix(f) == Len(f) >= 4 /\ SubSeq(f, Len(f) - 3, Len(f)) = ".npz"
NpzName(f) == IF HasNpzSuffix(f) THEN f ELSE f \o ".npz"

\* the property values as save reads them
Self ==
    [dataStore |-> _dataStore, etas |-> _etas, etaEdges |-> _etaEdges,
     iHKLList |-> iHKLList, omegas |-> _omegas, omeEdges |-> _omeEdges]

Constructed == pc = "done" /\ result = "object"

FileNames == {"maps", "maps.npz", "out"}

Return(op, val) ==
    /\ ret' = [op |-> op, val |-> val]
    /\ UNCHANGED <<plane_data, files>>
    /\ UNCHANGED ctor_vars
    /\ UNCHANGED not_use

\* lines 93-119: the read-only properties
Read_dataStore == Constructed /\ Return("dataStore", _dataStore)
Read_planeData == Constructed /\ Return("planeData", plane_data)
Read_iHKLList == Constructed /\ Return("iHKLList", iHKLList)
Read_etaEdges == Constructed /\ Return("etaEdges", _etaEdges)
Read_omeEdges == Constructed /\ Return("omeEdges", _omeEdges)
Read_etas == Constructed /\ Return("etas", _etas)
Read_omegas == Constructed /\ Return("omegas", _omegas)

PropertyNames == {"dataStore", "planeData", "iHKLList", "etaEdges", "omeEdges",
                  "etas", "omegas"}

\* an assignment to one of the properties: they are declared with a getter
\* only on a new-style class (line 10), so the assignment raises
SetProperty ==
    /\ Constructed
    /\ \E name \in PropertyNames : Return("set " \o name, "AttributeError")

\* save(filename), lines 121-143
save ==
    /\ Constructed
    /\ \E filename \in FileNames :
          LET t == TaggedParams(plane_data)
              archive == save_dict(Self, t.args, plane_data.hkls)
              name == NpzName(filename)
          IN  /\ plane_data' = t.model
              /\ files' = [f \in DOMAIN files \cup {name} |->
                              IF f = name THEN archive ELSE files[f]]
              /\ ret' = [op |-> "save " \o filename, val |-> "None"]
    /\ UNCHANGED ctor_vars
    /\ UNCHANGED not_use

\* np.load(name)[key] for the keys that hold numeric arrays: the array as a
\* nested list
tolist(arr) ==
    IF Len(arr.shape) = 1 THEN arr.data
    ELSE LET n == arr.shape[1]
             r == arr.shape[2]
             c == arr.shape[3]
         IN  [k \in 1..n |-> [i \in 1..r |-> [j \in 1..c |->
                 arr.data[(k - 1) * r * c + (i - 1) * c + j]]]]

-----------------------------------------------------------------------------
(* _OmegaImageSeries, image_io.py lines 40-91 *)

OMEGA_TAG == "omega"

\* np.zeros((n, 2))
zeros_n_2(n) == [i \in 1..n |-> <<0, 0>>]

\* __init__, lines 55-65: the raise for a series without omega metadata is
\* commented out, so construction always succeeds
Omis_init ==
    /\ omis_pc = "new"
    /\ omis' = [omis EXCEPT !._nframes = omis.ims.nframes,
                            !._shape = omis.ims.shape,
                            !._meta = omis.ims.metadata]
    /\ omis_pc' = "ready"
    /\ omis_ret' = [op |-> "__init__", val |-> <<>>]
    /\ UNCHANGED not_omis

\* the value of the omega property, lines 86-91
OmegaProperty(o) ==
    IF OMEGA_TAG \in DOMAIN o._meta THEN o._meta[OMEGA_TAG]
    ELSE zeros_n_2(o._nframes)

Omis_omega ==
    /\ omis_pc = "ready"
    /\ omis_ret' = [op |-> "omega", val |-> OmegaProperty(omis)]
    /\ UNCHANGED <<omis, omis_pc>>
    /\ UNCHANGED not_omis

\* lines 70-83
Omis_nframes ==
    /\ omis_pc = "ready"
    /\ omis_ret' = [op |-> "nframes", val |-> <<omis._nframes>>]
    /\ UNCHANGED <<omis, omis_pc>>
    /\ UNCHANGED not_omis

Omis_nrows ==
    /\ omis_pc = "ready"
    /\ omis_ret' = [op |-> "nrows", val |-> <<omis._shape[1]>>]
    /\ UNCHANGED <<omis, omis_pc>>
    /\ UNCHANGED not_omis

Omis_ncols ==
    /\ omis_pc = "ready"
    /\ omis_ret' = [op |-> "ncols", val |-> <<omis._shape[2]>>]
    /\ UNCHANGED <<omis, omis_pc>>
    /\ UNCHANGED not_omis

-----------------------------------------------------------------------------
(* Inputs *)

\* data values used in inputs: 1, and the smallest float whose sum with 1 is
\* rounded
Vals == {1, Pow2(PrecBits)}

\* the iteration orders of a dict with keys 1..n
Perms(n) == {s \in [1..n -> 1..n] : \A a, b \in 1..n : s[a] = s[b] => a = b}

\* consecutive frames of `step` degrees starting at `start`
OmegaRanges(n, start, step) ==
    [i \in 1..n |-> <<start + (i - 1) * step, start + i * step>>]

DefaultOmega(n) == OmegaRanges(n, 0, 10)

WithOmega(om) == [omega |-> om]

\* a metadata dict without the omega key
NoOmega == [x \in {} |-> <<>>]

\* bin centers at eta0, eta0 + spacing, ... degrees, given in radians
EtaCenters(n, eta0, spacing) == [j \in 1..n |-> Radians(eta0 + (j - 1) * spacing)]

DefaultEtas(n) == EtaCenters(n, 0, 1)

Filled(r, c, v) == [i \in 1..r |-> [j \in 1..c |-> v]]

NoneHkls == [isNone |-> TRUE, list |-> <<>>]

ListHkls(l) == [isNone |-> FALSE, list |-> l]

DefaultPeriod == <<0, 360>>

\* an input that varies the panels, their order and the values of one cell
PanelInput(order, cell, xr, strict) ==
    [order |-> order,
     polar |-> [key \in 1..Len(order) |-> [h \in {0} |-> Filled(1, 1, cell[key])]],
     nTTh |-> 1, active_hkls |-> NoneHkls,
     image_series_dict |-> [key \in 1..Len(order) |-> WithOmega(DefaultOmega(1))],
     eta_step |-> 1, ome_period |-> DefaultPeriod, etas |-> DefaultEtas(1),
     extractor_raises |-> xr, numpy_strict |-> strict]

PanelInputs(a) ==
    \E nP \in 1..MaxPanels : \E order \in Perms(nP) :
    \E cell \in [1..nP -> Vals \cup {NaN}] : \E xr \in BOOLEAN : \E strict \in BOOLEAN :
        a = PanelInput(order, cell, xr, strict)

\* two panels with at most MaxData data cells between them: the cells of the
\* two maps are numbered 1..2*r*c, q lists the numbers of the data cells in
\* increasing order and v their values
DataCells(n) ==
    UNION { {q \in [1..k -> 1..n] : \A t \in 1..(k - 1) : q[t] < q[t + 1]}
            : k \in 0..MaxData }

Placed(q, v, key, r, c) ==
    [i \in 1..r |-> [j \in 1..c |->
        LET n == ((key - 1) * r + (i - 1)) * c + j
        IN  IF \E t \in DOMAIN q : q[t] = n
            THEN v[CHOOSE t \in DOMAIN q : q[t] = n]
            ELSE NaN]]

CellInput(q, v, r, c) ==
    [order |-> <<1, 2>>,
     polar |-> [key \in 1..2 |-> [h \in {0} |-> Placed(q, v, key, r, c)]],
     nTTh |-> 1, active_hkls |-> NoneHkls,
     image_series_dict |-> [key \in 1..2 |-> WithOmega(DefaultOmega(r))],
     eta_step |-> 1, ome_period |-> DefaultPeriod, etas |-> DefaultEtas(c),
     extractor_raises |-> FALSE, numpy_strict |-> TRUE]

CellInputs(a) ==
    \E r \in 1..MaxFrames : \E c \in 1..MaxEta :
    \E q \in DataCells(2 * r * c) : \E v \in [DOMAIN q -> Vals] :
        a = CellInput(q, v, r, c)

\* the scenario of the specification's section 8
ExampleInput ==
    [order |-> <<1, 2>>,
     polar |-> [key \in 1..2 |-> [h \in {0} |->
                  IF key = 1 THEN <<<<1, NaN>>, <<NaN, NaN>>, <<3, 4>>>>
                  ELSE <<<<NaN, 5>>, <<NaN, NaN>>, <<NaN, NaN>>>>]],
     nTTh |-> 1, active_hkls |-> NoneHkls,
     image_series_dict |-> [key \in 1..2 |-> WithOmega(DefaultOmega(3))],
     eta_step |-> 1, ome_period |-> DefaultPeriod, etas |-> DefaultEtas(2),
     extractor_raises |-> FALSE, numpy_strict |-> TRUE]

\* the ring selections: None, or a list of at most MaxRings ring indices
ActiveHkls(nTTh) ==
    {NoneHkls} \cup
    UNION { {ListHkls(l) : l \in [1..n -> 0..(nTTh - 1)]} : n \in 0..MaxRings }

RingInput(nTTh, act, cell) ==
    [order |-> <<1, 2>>,
     polar |-> [key \in 1..2 |-> [h \in 0..(nTTh - 1) |-> Filled(1, 1, cell[key][h])]],
     nTTh |-> nTTh, active_hkls |-> act,
     image_series_dict |-> [key \in 1..2 |-> WithOmega(DefaultOmega(1))],
     eta_step |-> 1, ome_period |-> DefaultPeriod, etas |-> DefaultEtas(1),
     extractor_raises |-> FALSE, numpy_strict |-> TRUE]

RingInputs(a) ==
    \E nTTh \in 1..MaxRings : \E act \in ActiveHkls(nTTh) :
    \E cell \in [1..2 -> [0..(nTTh - 1) -> {NaN, 1}]] :
        a = RingInput(nTTh, act, cell)

\* the omega metadata of one panel: missing, or consecutive frames whose
\* bounds are multiples of ten degrees
OmegaStarts == {0, 340, -20}
OmegaSteps == {10, 20}
Periods == {<<0, 360>>, <<-180, 180>>}

Metadatas(n) ==
    {NoOmega} \cup
    {WithOmega(OmegaRanges(n, start, step)) : start \in OmegaStarts, step \in OmegaSteps}

EtaStarts == {0, -2}
EtaSpacings == {1, 2}
EtaSteps == {1, 2}

AxisInput(order, isd, period, r, c, eta0, spacing, eta_step) ==
    [order |-> order,
     polar |-> [key \in 1..2 |-> [h \in {0} |-> Filled(r, c, NaN)]],
     nTTh |-> 1, active_hkls |-> NoneHkls,
     image_series_dict |-> isd,
     eta_step |-> eta_step, ome_period |-> period,
     etas |-> EtaCenters(c, eta0, spacing),
     extractor_raises |-> FALSE, numpy_strict |-> TRUE]

AxisInputs(a) ==
    \E r \in 1..MaxFrames : \E c \in 1..MaxEta : \E order \in Perms(2) :
    \E isd \in [1..2 -> Metadatas(r)] : \E period \in Periods :
    \E eta0 \in EtaStarts : \E spacing \in EtaSpacings : \E eta_step \in EtaSteps :
        a = AxisInput(order, isd, period, r, c, eta0, spacing, eta_step)

\* the inputs under which the extractor keeps its contract
Inputs(a) ==
    \/ PanelInputs(a)
    \/ CellInputs(a)
    \/ a = ExampleInput
    \/ RingInputs(a)
    \/ AxisInputs(a)

\* extractor answers that break its contract: panels whose maps differ in shape
Shapes == (1..MaxFrames) \X (1..MaxEta)

MismatchInput(order, sh, fill, nTTh, strict) ==
    [order |-> order,
     polar |-> [key \in 1..2 |-> [h \in 0..(nTTh - 1) |->
                   Filled(sh[key][1], sh[key][2], fill[key])]],
     nTTh |-> nTTh, active_hkls |-> NoneHkls,
     image_series_dict |-> [key \in 1..2 |-> WithOmega(DefaultOmega(sh[key][1]))],
     eta_step |-> 1, ome_period |-> DefaultPeriod, etas |-> DefaultEtas(sh[1][2]),
     extractor_raises |-> FALSE, numpy_strict |-> strict]

MismatchInputs(a) ==
    \E order \in Perms(2) : \E sh \in [1..2 -> Shapes] : \E fill \in [1..2 -> {NaN, 1}] :
    \E nTTh \in 1..MaxRings : \E strict \in BOOLEAN :
        a = MismatchInput(order, sh, fill, nTTh, strict)

ImageSeries ==
    UNION { { [nframes |-> n, shape |-> sh, metadata |-> md]
              : sh \in Shapes, md \in Metadatas(n) }
            : n \in 1..MaxFrames }

-----------------------------------------------------------------------------
(* ReadGE, image_io.py lines 207-383, and read_frames, pull_spots_mp.py 71-93 *)
(* A frame of the series is named by its index; the reader's mask is None,  *)
(* as __init__ leaves it.  iFrame is a number or, after a multiframe read    *)
(* without summing, an array of frame indices.                               *)

Scalar(k) == [ndim |-> 0, v |-> <<k>>]
Array(idx) == [ndim |-> 1, v |-> idx]

\* np.atleast_1d
atleast_1d(x) == x.v

\* ReadGE.getNFrames(), lines 275-277
getNFrames == rd_nframes

\* line 380: self.iFrame + 1 == self.getNFrames compares a number with the
\* bound method itself, and a number never equals a method object
EqualsGetNFrames(x) == FALSE

\* _OmegaImageSeries.__getitem__, lines 67-68
OmisGetItem(k) == k

\* range(n)
range0(n) == [i \in 1..n |-> i - 1]

\* read() whose single-frame branch returns the frame of the old counter
ReadGE_read_stale(cur, nskip, nframes, sumImg) ==
    LET base == Last(atleast_1d(cur)) + nskip
    IN  [iFrame |-> Scalar(base + 1),
         ret |-> [kind |-> "frame", frames |-> <<OmisGetItem(base)>>]]

\* ReadGE.read, lines 329-383: the new value of iFrame and the value returned
ReadGE_read(cur, nskip, nframes, sumImg) ==
    LET base == Last(atleast_1d(cur)) + nskip
        idx == [i \in 1..nframes |-> base + 1 + range0(nframes)[i]]
    IN  IF ~(nframes > 1)
        THEN [iFrame |-> Scalar(base + 1),
              ret |-> [kind |-> "frame", frames |-> <<OmisGetItem(base + 1)>>]]
        ELSE IF sumImg = "False"
        THEN [iFrame |-> Array(idx),
              ret |-> [kind |-> "frames",
                       frames |-> [i \in 1..nframes |-> OmisGetItem(idx[i])]]]
        ELSE [iFrame |-> IF EqualsGetNFrames(Last(idx) + 1)
                         THEN Scalar(-1) ELSE Scalar(Last(idx)),
              ret |-> [kind |-> IF sumImg = "True" THEN "mean" ELSE "op",
                       frames |-> [i \in 1..nframes |-> OmisGetItem(idx[i])]]]

SumImgs == {"False", "True", "callable"}

Call(nskip, nframes, sumImg, r) ==
    [nskip |-> nskip, nframes |-> nframes, sumImg |-> sumImg,
     before |-> iFrame, after |-> r.iFrame, ret |-> r.ret]

\* a client calls reader.read(nskip, nframes, sumImg) for frames of the series
Read ==
    /\ rf_pc = "idle"
    /\ Len(calls) < MaxCalls
    /\ \E nskip \in 0..MaxSkip : \E nframes \in 1..MaxRead : \E sumImg \in SumImgs :
          /\ Last(atleast_1d(iFrame)) + nskip + nframes < rd_nframes
          /\ LET r == ReadGE_read(iFrame, nskip, nframes, sumImg)
             IN  /\ iFrame' = r.iFrame
                 /\ calls' = Append(calls, Call(nskip, nframes, sumImg, r))
    /\ UNCHANGED <<rd_nframes, rf_pc, rf_nframes, frame_list>>
    /\ UNCHANGED not_rdr

\* read_frames lines 78-79, on a reader nobody has read from
ReadFramesBegin ==
    /\ rf_pc = "idle"
    /\ calls = <<>>
    /\ frame_list' = <<>>
    /\ rf_nframes' = getNFrames
    /\ rf_pc' = "loop"
    /\ UNCHANGED <<iFrame, rd_nframes, calls>>
    /\ UNCHANGED not_rdr

\* read_frames lines 82-86: one pass of the loop
ReadFramesStep ==
    /\ rf_pc = "loop"
    /\ Len(frame_list) < rf_nframes
    /\ LET r == ReadGE_read(iFrame, 0, 1, "False")
       IN  /\ iFrame' = r.iFrame
           /\ calls' = Append(calls, Call(0, 1, "False", r))
           /\ frame_list' = Append(frame_list, r.ret.frames[1])
    /\ UNCHANGED <<rd_nframes, rf_pc, rf_nframes>>
    /\ UNCHANGED not_rdr

\* read_frames lines 87-93: the loop is over and the frame list is returned
ReadFramesEnd ==
    /\ rf_pc = "loop"
    /\ Len(frame_list) = rf_nframes
    /\ rf_pc' = "done"
    /\ UNCHANGED <<iFrame, rd_nframes, calls, rf_nframes, frame_list>>
    /\ UNCHANGED not_rdr

-----------------------------------------------------------------------------
(* The grain driver, pull_spots_mp.py: process_grain (lines 108-286) run by *)
(* the pool's worker processes or by the main process, and the main program  *)
(* (lines 292-375).  A pool worker's process number is its index 1..ncpus,   *)
(* the main process has number 0.                                            *)

analysis_name == "run"

\* '%d' % n
RECURSIVE Decimal(_)
Decimal(n) ==
    IF n < 10 THEN SubSeq("0123456789", n + 1, n + 1)
    ELSE Decimal(n \div 10) \o Decimal(n % 10)

\* zero padding to a minimum width: '%0wd' % n is ZeroPad(Decimal(n), w)
RECURSIVE ZeroPad(_, _)
ZeroPad(str, w) == IF Len(str) >= w THEN str ELSE ZeroPad("0" \o str, w)

\* one log file for all processes
LogNameShared(procnum) == analysis_name \o "-log.out"

\* line 123
LogName(procnum) == analysis_name \o "-proc" \o ZeroPad(Decimal(procnum), 2) \o "-log.out"

\* line 157
SpotsName(jobnum) == analysis_name \o "-spots_" \o ZeroPad(Decimal(jobnum), 5) \o ".out"

\* lines 156 and 276 (and 365-366)
GrainsName(jobnum) ==
    "pstmp/" \o analysis_name \o "_job_" \o ZeroPad(Decimal(jobnum), 5) \o "-grains.npy"

\* line 356
MergedName == analysis_name \o "-grains.out"

\* line 335
chunksize == 2

\* lines 324 and 343
UsePool == ncpus > 1

Procs == IF UsePool THEN 1..ncpus ELSE {0}

Jobs == 0..(nquats - 1)

\* the job lists the processes work through: the pool cuts jobdata into
\* chunks of chunksize consecutive jobs (line 344); without a pool the main
\* process runs every job in order (lines 347-348)
Chunks ==
    IF UsePool
    THEN [c \in 1..((nquats + chunksize - 1) \div chunksize) |->
            [k \in 1..(IF c * chunksize <= nquats THEN chunksize
                       ELSE nquats - (c - 1) * chunksize) |->
                (c - 1) * chunksize + k - 1]]
    ELSE <<[k \in 1..nquats |-> k - 1]>>

Handle(file, p) == [file |-> file, job |-> wk[p].job, proc |-> p]

\* xrdutil.pullSpots: what it does to the frame data it is handed (it only
\* reads them; its table goes to the file handle it is given)
pullSpots(jobnum) == {[job |-> jobnum, op |-> "read"]}

\* a process takes the next chunk of jobs
TakeChunk(p) ==
    /\ main_pc = "dispatch"
    /\ wk[p].pc = "idle"
    /\ next_chunk <= Len(Chunks)
    /\ wk' = [wk EXCEPT ![p].chunk = Chunks[next_chunk], ![p].pc = "start"]
    /\ next_chunk' = next_chunk + 1
    /\ UNCHANGED <<nquats, ncpus, job_state, open_w, writes, disk, reader_ops,
                   completed, main_pc, merge_jobnum, merge_reads, grains_out>>
    /\ UNCHANGED not_drv

\* process_grain lines 109-129: the log file of the process is opened for
\* appending and the first lines are printed into it
OpenLog(p) ==
    /\ wk[p].pc = "start"
    /\ LET j == Head(wk[p].chunk)
           h == [file |-> LogName(p), job |-> j, proc |-> p]
       IN  /\ wk' = [wk EXCEPT ![p].job = j, ![p].pc = "pull", ![p].i = 0]
           /\ job_state' = [job_state EXCEPT ![j] = "running"]
           /\ open_w' = open_w \cup {h}
           /\ writes' = writes \cup {h}
           /\ disk' = IF LogName(p) \in DOMAIN disk THEN disk
                      ELSE [f \in DOMAIN disk \cup {LogName(p)} |->
                               IF f = LogName(p) THEN [kind |-> "log"] ELSE disk[f]]
    /\ UNCHANGED <<nquats, ncpus, next_chunk, reader_ops, completed, main_pc,
                   merge_jobnum, merge_reads, grains_out>>
    /\ UNCHANGED not_drv

\* lines 187-208: the frame list's length is read, the spots file is opened
\* for writing (and so truncated)
OpenSpots(p) ==
    /\ wk[p].pc = "pull"
    /\ LET h == Handle(SpotsName(wk[p].job), p)
       IN  /\ open_w' = open_w \cup {h}
           /\ writes' = writes \cup {h}
           /\ disk' = [f \in DOMAIN disk \cup {h.file} |->
                          IF f = h.file THEN [kind |-> "spots", job |-> h.job, rows |-> 0]
                          ELSE disk[f]]
    /\ reader_ops' = reader_ops \cup {[job |-> wk[p].job, op |-> "read"]}
    /\ wk' = [wk EXCEPT ![p].pc = "pulling"]
    /\ UNCHANGED <<nquats, ncpus, next_chunk, job_state, completed, main_pc,
                   merge_jobnum, merge_reads, grains_out>>
    /\ UNCHANGED not_drv

\* lines 209-216 and 247-255: pullSpots reads the frames and writes the table
\* to the open file, which is then closed
PullSpots(p) ==
    /\ wk[p].pc = "pulling"
    /\ LET h == Handle(SpotsName(wk[p].job), p)
       IN  /\ open_w' = open_w \ {h}
           /\ disk' = [disk EXCEPT ![h.file].rows = 1]
    /\ reader_ops' = reader_ops \cup pullSpots(wk[p].job)
    /\ wk' = [wk EXCEPT ![p].pc = "fit"]
    /\ UNCHANGED <<nquats, ncpus, next_chunk, job_state, writes, completed, main_pc,
                   merge_jobnum, merge_reads, grains_out>>
    /\ UNCHANGED not_drv

\* lines 219-259: one pass of the strain-fitting loop; with more than twelve
\* valid reflections the grain is refined and, in the first pass, the spots
\* are pulled again into the same file; otherwise the loop is left
Fit(p) ==
    /\ wk[p].pc = "fit"
    /\ \E enough \in BOOLEAN :
          IF enough /\ wk[p].i = 0
          THEN LET h == Handle(SpotsName(wk[p].job), p)
               IN  /\ open_w' = open_w \cup {h}
                   /\ writes' = writes \cup {h}
                   /\ disk' = [disk EXCEPT ![h.file].rows = 0]
                   /\ wk' = [wk EXCEPT ![p].pc = "pulling", ![p].i = 1]
          ELSE /\ wk' = [wk EXCEPT ![p].pc = "save"]
               /\ UNCHANGED <<open_w, writes, disk>>
    /\ UNCHANGED <<nquats, ncpus, next_chunk, job_state, reader_ops, completed,
                   main_pc, merge_jobnum, merge_reads, grains_out>>
    /\ UNCHANGED not_drv

\* lines 269-276: the grain data, whose first entry is the job number, is
\* saved to the job's file
SaveGrain(p) ==
    /\ wk[p].pc = "save"
    /\ LET h == Handle(GrainsName(wk[p].job), p)
       IN  /\ writes' = writes \cup {h}
           /\ disk' = [f \in DOMAIN disk \cup {h.file} |->
                          IF f = h.file THEN [kind |-> "grain", graindata |-> <<h.job>>]
                          ELSE disk[f]]
    /\ wk' = [wk EXCEPT ![p].pc = "finish"]
    /\ UNCHANGED <<nquats, ncpus, next_chunk, job_state, open_w, reader_ops, completed,
                   main_pc, merge_jobnum, merge_reads, grains_out>>
    /\ UNCHANGED not_drv

\* lines 278-286: the log file is closed and process_grain returns; the main
\* loop sees the results of a pool's chunk when the chunk is finished, and
\* without a pool goes on after every job (lines 344-349)
Finish(p) ==
    /\ wk[p].pc = "finish"
    /\ LET j == wk[p].job
           rest == Tail(wk[p].chunk)
           whole == Chunks[CHOOSE c \in 1..Len(Chunks) : \E k \in 1..Len(Chunks[c]) :
                                                           Chunks[c][k] = j]
       IN  /\ open_w' = open_w \ {[file |-> LogName(p), job |-> j, proc |-> p]}
           /\ job_state' = [job_state EXCEPT ![j] = "done"]
           /\ wk' = [wk EXCEPT ![p].chunk = rest,
                               ![p].pc = IF rest = <<>> THEN "idle" ELSE "start"]
           /\ completed' = IF ~UsePool THEN Append(completed, j)
                           ELSE IF rest = <<>> THEN completed \o whole
                           ELSE completed
    /\ UNCHANGED <<nquats, ncpus, next_chunk, writes, disk, reader_ops, main_pc,
                   merge_jobnum, merge_reads, grains_out>>
    /\ UNCHANGED not_drv

\* the dispatch loop ends as soon as one result has come in
SomeResultIn == Len(completed) >= 1

\* lines 343-350: the dispatch loop ends when it has seen every job's result
AllResultsIn == Len(completed) = nquats

\* lines 355-363: the combined file is opened
StartMerge ==
    /\ main_pc = "dispatch"
    /\ AllResultsIn
    /\ main_pc' = "merge"
    /\ merge_jobnum' = 0
    /\ disk' = [f \in DOMAIN disk \cup {MergedName} |->
                   IF f = MergedName THEN [kind |-> "merged"] ELSE disk[f]]
    /\ UNCHANGED <<nquats, ncpus, wk, next_chunk, job_state, open_w, writes,
                   reader_ops, completed, merge_reads, grains_out>>
    /\ UNCHANGED not_drv

\* lines 364-372: one pass of the merge loop; loading a file that does not
\* exist raises
MergeStep ==
    /\ main_pc = "merge"
    /\ merge_jobnum < nquats
    /\ LET name == GrainsName(merge_jobnum)
       IN  IF name \in DOMAIN disk
           THEN /\ merge_reads' = Append(merge_reads, name)
                /\ grains_out' = Append(grains_out, disk[name].graindata[1])
                /\ merge_jobnum' = merge_jobnum + 1
                /\ UNCHANGED main_pc
           ELSE /\ main_pc' = "IOError"
                /\ UNCHANGED <<merge_reads, grains_out, merge_jobnum>>
    /\ UNCHANGED <<nquats, ncpus, wk, next_chunk, job_state, open_w, writes, disk,
                   reader_ops, completed>>
    /\ UNCHANGED not_drv

\* lines 373-375
MergeEnd ==
    /\ main_pc = "merge"
    /\ merge_jobnum = nquats
    /\ main_pc' = "done"
    /\ UNCHANGED <<nquats, ncpus, wk, next_chunk, job_state, open_w, writes, disk,
                   reader_ops, completed, merge_jobnum, merge_reads, grains_out>>
    /\ UNCHANGED not_drv

-----------------------------------------------------------------------------
(* Specifications *)

CtorStart ==
    /\ pc = "select"
    /\ n_rings = 0
    /\ eta_mapping = <<>>
    /\ etas = <<>>
    /\ det_key = 0
    /\ data_store = <<>>
    /\ i_ring = 0
    /\ attrs = {}
    /\ _iHKLList = <<>>
    /\ _dataStore = <<>>
    /\ _omegas = <<>>
    /\ _omeEdges = <<>>
    /\ _etas = <<>>
    /\ _etaEdges = <<>>
    /\ result = "pending"
    /\ error = NoError

OmisStart ==
    /\ omis_pc = "new"
    /\ omis_ret = [op |-> "none", val |-> <<>>]

NoFiles == [f \in {} |-> <<>>]

PlaneDatas ==
    {[lparms |-> 4, laueGroup |-> "m3m", wavelength |-> [value |-> w], strainMag |-> 0,
      tThWidth |-> 0, hkls |-> <<<<1, 1, 1>>, <<2, 0, 0>>>>] : w \in 1..MaxData}

DefaultPlaneData ==
    [lparms |-> 4, laueGroup |-> "m3m", wavelength |-> [value |-> 1], strainMag |-> 0,
     tThWidth |-> 0, hkls |-> <<<<1, 1, 1>>, <<2, 0, 0>>>>]

UseStart ==
    /\ ret = [op |-> "none", val |-> <<>>]
    /\ files = NoFiles

UseIdle ==
    /\ plane_data = DefaultPlaneData
    /\ UseStart

\* ReadGE.__init__, lines 257-258, and nothing read yet
ReaderStart ==
    /\ iFrame = Scalar(-1)
    /\ calls = <<>>
    /\ rf_pc = "idle"
    /\ rf_nframes = 0
    /\ frame_list = <<>>

ReaderIdle ==
    /\ rd_nframes = 1
    /\ ReaderStart

NoDisk == [f \in {} |-> <<>>]

\* the main program at line 337, before any job is handed out
DriverStart ==
    /\ wk = [p \in Procs |-> [pc |-> "idle", chunk |-> <<>>, job |-> -1, i |-> 0]]
    /\ next_chunk = 1
    /\ job_state = [j \in Jobs |-> "queued"]
    /\ open_w = {}
    /\ writes = {}
    /\ disk = NoDisk
    /\ reader_ops = {}
    /\ completed = <<>>
    /\ main_pc = "dispatch"
    /\ merge_jobnum = 0
    /\ merge_reads = <<>>
    /\ grains_out = <<>>

DriverIdle ==
    /\ nquats = 1
    /\ ncpus = 1
    /\ DriverStart

OmisIdle ==
    /\ omis = [ims |-> [nframes |-> 1, shape |-> <<1, 1>>, metadata |-> NoOmega],
               _nframes |-> 0, _shape |-> <<>>, _meta |-> NoOmega]
    /\ OmisStart

\* the constructor on inputs that keep the extractor's contract
Init ==
    /\ Inputs(args)
    /\ CtorStart
    /\ OmisIdle
    /\ UseIdle
    /\ ReaderIdle
    /\ DriverIdle

Next ==
    \/ SelectRings
    \/ ExtractPolarMaps
    \/ AggregateRing
    \/ StoreDataStore
    \/ HandleOmegas
    \/ HandleEtas

Spec == Init /\ [][Next]_vars

\* the constructor when panels may disagree on the shape of their maps
InitMismatch ==
    /\ Inputs(args) \/ MismatchInputs(args)
    /\ CtorStart
    /\ OmisIdle
    /\ UseIdle
    /\ ReaderIdle
    /\ DriverIdle

SpecMismatch == InitMismatch /\ [][Next]_vars

\* an _OmegaImageSeries over an image series with or without omega metadata
InitOmis ==
    /\ args = ExampleInput
    /\ CtorStart
    /\ \E ims \in ImageSeries :
          omis = [ims |-> ims, _nframes |-> 0, _shape |-> <<>>, _meta |-> NoOmega]
    /\ OmisStart
    /\ UseIdle
    /\ ReaderIdle
    /\ DriverIdle

NextOmis ==
    \/ Omis_init
    \/ Omis_omega
    \/ Omis_nframes
    \/ Omis_nrows
    \/ Omis_ncols

SpecOmis == InitOmis /\ [][NextOmis]_vars

\* the constructor, then any sequence of property reads, attempted property
\* assignments and saves on the constructed aggregator
InitUse ==
    /\ RingInputs(args) \/ args = ExampleInput
    /\ CtorStart
    /\ OmisIdle
    /\ plane_data \in PlaneDatas
    /\ UseStart
    /\ ReaderIdle
    /\ DriverIdle

NextUse ==
    \/ Next
    \/ Read_dataStore
    \/ Read_planeData
    \/ Read_iHKLList
    \/ Read_etaEdges
    \/ Read_omeEdges
    \/ Read_etas
    \/ Read_omegas
    \/ SetProperty
    \/ save

SpecUse == InitUse /\ [][NextUse]_vars

\* a freshly constructed ReadGE over a series of 1..MaxSeries frames, read by
\* a client or by read_frames
InitRead ==
    /\ args = ExampleInput
    /\ CtorStart
    /\ OmisIdle
    /\ UseIdle
    /\ rd_nframes \in 1..MaxSeries
    /\ ReaderStart
    /\ DriverIdle

NextRead ==
    \/ Read
    \/ ReadFramesBegin
    \/ ReadFramesStep
    \/ ReadFramesEnd

SpecRead == InitRead /\ [][NextRead]_vars

\* the grain driver over 1..MaxQuats orientations with 1..MaxCpus processes
InitDriver ==
    /\ args = ExampleInput
    /\ CtorStart
    /\ OmisIdle
    /\ UseIdle
    /\ ReaderIdle
    /\ nquats \in 1..MaxQuats
    /\ ncpus \in 1..MaxCpus
    /\ DriverStart

NextDriver ==
    \/ \E p \in Procs : TakeChunk(p)
    \/ \E p \in Procs : OpenLog(p)
    \/ \E p \in Procs : OpenSpots(p)
    \/ \E p \in Procs : PullSpots(p)
    \/ \E p \in Procs : Fit(p)
    \/ \E p \in Procs : SaveGrain(p)
    \/ \E p \in Procs : Finish(p)
    \/ StartMerge
    \/ MergeStep
    \/ MergeEnd

SpecDriver == InitDriver /\ [][NextDriver]_vars

-----------------------------------------------------------------------------
(* Properties *)

Keys == Range(args.order)

Aggregated == "_dataStore" \in attrs

\* the panels that hold a data value at cell (i, j) of their k-th map
DataPanels(k, i, j) == {key \in Keys : ~IsNaN(eta_mapping[key][k][i][j])}

\* the floating-point sum, in iteration order, of the panels' values at a
\* cell, a panel without data there contributing zero
RECURSIVE SumInOrder(_, _, _, _, _)
SumInOrder(order, k, i, j, acc) ==
    IF order = <<>> THEN acc
    ELSE LET v == eta_mapping[Head(order)][k][i][j]
         IN  SumInOrder(Tail(order), k, i, j,
                        Round(acc + (IF IsNaN(v) THEN 0 ELSE v)))

\* C1: once dataStore is assigned it has one map per ring, of the panels'
\* shape, and a cell of it holds a data value exactly when at least one panel
\* holds a data value in that cell of the same ring (so it is NaN exactly when
\* every panel is NaN there).
C1_UnionRule ==
    Aggregated =>
        /\ Len(_dataStore) = n_rings
        /\ \A k \in 1..n_rings : \A key \in Keys :
              /\ Shape(_dataStore[k]) = Shape(eta_mapping[key][k])
              /\ \A i \in 1..Len(_dataStore[k]) : \A j \in 1..Len(_dataStore[k][i]) :
                    ~IsNaN(_dataStore[k][i][j]) <=> DataPanels(k, i, j) # {}

\* a map with a cell no panel has data for, a cell only the first panel has
\* data for and a cell only the second panel has data for
C1_Witness ==
    /\ result = "object"
    /\ Len(args.order) = 2
    /\ n_rings = 1
    /\ \E i \in 1..Len(_dataStore[1]) : \E j \in 1..Len(_dataStore[1][i]) :
          IsNaN(_dataStore[1][i][j]) /\ DataPanels(1, i, j) = {}
    /\ \E i \in 1..Len(_dataStore[1]) : \E j \in 1..Len(_dataStore[1][i]) :
          ~IsNaN(_dataStore[1][i][j]) /\ DataPanels(1, i, j) = {1}
    /\ \E i \in 1..Len(_dataStore[1]) : \E j \in 1..Len(_dataStore[1][i]) :
          ~IsNaN(_dataStore[1][i][j]) /\ DataPanels(1, i, j) = {2}

\* C2: every data cell of dataStore is the (floating-point) sum of the panels'
\* values at that cell, missing panels contributing zero; with one panel
\* holding data it is that panel's value, with two it is the sum of the two;
\* the panels of the specification's example give [[1,5],[NaN,NaN],[3,4]].
C2_Summation ==
    Aggregated =>
        /\ \A k \in 1..Len(_dataStore) :
           \A i \in 1..Len(_dataStore[k]) : \A j \in 1..Len(_dataStore[k][i]) :
              LET x == _dataStore[k][i][j]
                  P == DataPanels(k, i, j)
              IN  ~IsNaN(x) =>
                    /\ x = SumInOrder(args.order, k, i, j, 0)
                    /\ \A a \in P : P = {a} => x = eta_mapping[a][k][i][j]
                    /\ \A a, b \in P : (a # b /\ P = {a, b}) =>
                          x = Round(eta_mapping[a][k][i][j] + eta_mapping[b][k][i][j])
        /\ args = ExampleInput =>
              _dataStore = << <<<<1, 5>>, <<NaN, NaN>>, <<3, 4>>>> >>

\* a cell that two panels hold different data for, and a third panel none
C2_Witness ==
    /\ result = "object"
    /\ Len(args.order) = 3
    /\ \E a, b \in Keys :
          /\ DataPanels(1, 1, 1) = {a, b}
          /\ eta_mapping[a][1][1][1] = 1
          /\ eta_mapping[b][1][1][1] = Pow2(PrecBits)
          /\ _dataStore[1][1][1] = Pow2(PrecBits)

\* C3: a constructed object has one more omega edge than omegas and one more
\* eta edge than etas.
C3_EdgeCount ==
    result = "object" =>
        /\ Len(_omeEdges) = Len(_omegas) + 1
        /\ Len(_etaEdges) = Len(_etas) + 1

C3_Witness ==
    /\ result = "object"
    /\ Len(_omegas) = 2 /\ Len(_omeEdges) = 3
    /\ Len(_etas) = 1 /\ Len(_etaEdges) = 2

\* the iteration orders the same dict of panels could have
Orders == {[k \in 1..Len(args.order) |-> args.order[p[k]]] : p \in Perms(Len(args.order))}

DataStoreUnder(o) ==
    LET d == ConstructedDataStore(o, eta_mapping, n_rings, args.numpy_strict)
    IN  [k \in 1..n_rings |-> d[k].full_map]

RECURSIVE ExactSum(_, _, _, _)
ExactSum(order, k, i, j) ==
    IF order = <<>> THEN 0
    ELSE LET v == eta_mapping[Head(order)][k][i][j]
         IN  (IF IsNaN(v) THEN 0 ELSE v) + ExactSum(Tail(order), k, i, j)

\* C4 as claimed: every iteration order of the same panels gives the same
\* dataStore.
C4_OrderIndependent ==
    Aggregated => \A o \in Orders : DataStoreUnder(o) = _dataStore

\* C4 as amended: every iteration order of the same panels gives the same
\* missing-data pattern, and the same value in every cell that at most two
\* panels hold data for or whose sum is exact; a cell three or more panels hold
\* data for may differ by the rounding of the floating-point additions.
C4_OrderIndependentUpToRounding ==
    Aggregated => \A o \in Orders :
        LET d == DataStoreUnder(o)
        IN  /\ Len(d) = Len(_dataStore)
            /\ \A k \in 1..Len(d) :
               \A i \in 1..Len(_dataStore[k]) : \A j \in 1..Len(_dataStore[k][i]) :
                  /\ IsNaN(d[k][i][j]) <=> IsNaN(_dataStore[k][i][j])
                  /\ (\/ Cardinality(DataPanels(k, i, j)) <= 2
                      \/ ExactSum(args.order, k, i, j) < Pow2(PrecBits))
                     => d[k][i][j] = _dataStore[k][i][j]

\* two panels with different data in the same cell, visited second panel first
C4_Witness ==
    /\ result = "object"
    /\ args.order = <<2, 1>>
    /\ n_rings = 1
    /\ eta_mapping[1][1][1][1] = 1
    /\ eta_mapping[2][1][1][1] = Pow2(PrecBits)
    /\ DataStoreUnder(<<1, 2>>) = _dataStore

\* some requested ring has maps of different shapes on two panels
PanelsDisagree ==
    \E a, b \in Keys : \E k \in 1..Len(RequestedRings(args)) :
        Shape(args.polar[a][RequestedRings(args)[k]])
            # Shape(args.polar[b][RequestedRings(args)[k]])

\* C5: when two panels disagree on the shape of a ring's map, construction
\* fails: no dataStore is assigned and the caller gets no object.
C5_MismatchRejected ==
    PanelsDisagree => (~Aggregated /\ result # "object")

\* C6: an image series without omega metadata never yields an all-zero omega
\* array from the _OmegaImageSeries built over it.
C6_MissingOmegaFatal ==
    OMEGA_TAG \notin DOMAIN omis.ims.metadata =>
        ~(omis_ret.op = "omega" /\ omis_ret.val = zeros_n_2(omis.ims.nframes))

AllAttrs == {"_planeData", "_iHKLList", "_dataStore", "_omegas", "_omeEdges",
             "_etas", "_etaEdges"}

\* C7: the caller holds an object only when every step has run (one map per
\* ring, both axes); when __init__ raised, whatever was assigned so far, the
\* caller holds no object.
C7_AllOrNothing ==
    /\ result = "object" =>
          /\ pc = "done"
          /\ attrs = AllAttrs
          /\ Len(_dataStore) = n_rings
          /\ Len(_omeEdges) > 0 /\ Len(_etaEdges) > 0
    /\ pc = "raised" => result = "exception"
    /\ pc \notin {"done", "raised"} => result = "pending"

\* the omega metadata lookup failed after dataStore had been assigned
C7_Witness ==
    /\ pc = "raised"
    /\ error = "KeyError"
    /\ "_dataStore" \in attrs
    /\ "_omegas" \notin attrs
    /\ result = "exception"

\* the floating-point sum over the panels, in iteration order, of their
\* values for ring h at a cell, a panel without data there contributing zero
RECURSIVE PolarSum(_, _, _, _)
PolarSum(order, h, i, j) ==
    IF order = <<>> THEN 0
    ELSE LET v == args.polar[Last(order)][h][i][j]
         IN  Round(PolarSum(SubSeq(order, 1, Len(order) - 1), h, i, j)
                   + (IF IsNaN(v) THEN 0 ELSE v))

\* the aggregate of the panels' maps of ring h, cell by cell
RingAggregate(h) ==
    LET any == args.polar[args.order[1]][h]
    IN  [i \in 1..Len(any) |-> [j \in 1..Len(any[i]) |->
            IF \A key \in Keys : IsNaN(args.polar[key][h][i][j]) THEN NaN
            ELSE PolarSum(args.order, h, i, j)]]

\* C8: without active_hkls the ring list is 0..n-1 for the n rings of the
\* plane data, with active_hkls it is that list; dataStore, iHKLList and
\* n_rings agree in length, and dataStore[k] aggregates every panel's k-th
\* extracted map, which is the map of ring iHKLList[k].
C8_RingBookkeeping ==
    Aggregated =>
        /\ IF args.active_hkls.isNone
           THEN /\ n_rings = args.nTTh
                /\ Len(iHKLList) = args.nTTh
                /\ \A k \in 1..args.nTTh : iHKLList[k] = k - 1
           ELSE /\ n_rings = Len(args.active_hkls.list)
                /\ iHKLList = args.active_hkls.list
        /\ Len(_dataStore) = n_rings
        /\ Len(iHKLList) = n_rings
        /\ \A k \in 1..n_rings :
              /\ \A key \in Keys : eta_mapping[key][k] = args.polar[key][iHKLList[k]]
              /\ _dataStore[k] = RingAggregate(iHKLList[k])

\* rings given in descending order, with different aggregates
C8_Witness ==
    /\ result = "object"
    /\ ~args.active_hkls.isNone
    /\ iHKLList = <<1, 0>>
    /\ _dataStore[1] # _dataStore[2]
    /\ _dataStore[1] = RingAggregate(1)

\* the reference panel: the key det_key holds when line 75 runs, which is the
\* last key the aggregation loop visited (the first key when no ring was
\* aggregated)
ReferencePanel == IF n_rings = 0 THEN args.order[1] ELSE Last(args.order)

InPeriod(x) ==
    /\ Radians(args.ome_period[1]) <= x
    /\ x < Radians(args.ome_period[1]) + TwoPi

\* x and y are the same angle up to whole turns
SameAngle(x, y) == (x - y) % TwoPi = 0

\* C9: for the reference panel's frames (start_i, end_i), omegas[i] is the
\* midpoint of frame i brought into the period, omeEdges[i] the start of frame
\* i brought into the period and the last edge the end of the last frame
\* brought into the period, element by element and in frame order; frames
\* (0,10), (10,20), (20,30) with period [0,360) give 5, 15, 25 and
\* 0, 10, 20, 30 degrees.  (The midpoint (s+e)/2 degrees is s+e angle units.)
C9_OmegaAxis ==
    "_omegas" \in attrs =>
        LET om == args.image_series_dict[ReferencePanel].omega
            n == Len(om)
        IN  /\ Len(_omegas) = n
            /\ Len(_omeEdges) = n + 1
            /\ \A i \in 1..n :
                  /\ InPeriod(_omegas[i])
                  /\ SameAngle(_omegas[i], om[i][1] + om[i][2])
                  /\ InPeriod(_omeEdges[i])
                  /\ SameAngle(_omeEdges[i], Radians(om[i][1]))
            /\ InPeriod(_omeEdges[n + 1])
            /\ SameAngle(_omeEdges[n + 1], Radians(om[n][2]))
            /\ (om = <<<<0, 10>>, <<10, 20>>, <<20, 30>>>> /\ args.ome_period = <<0, 360>>)
               => /\ _omegas = <<Radians(5), Radians(15), Radians(25)>>
                  /\ _omeEdges = <<Radians(0), Radians(10), Radians(20), Radians(30)>>

\* the frames run through the end of the period, so the edges are not
\* monotonic, and the other panel carries different omega metadata
C9_Witness ==
    /\ result = "object"
    /\ Len(_omeEdges) = 3
    /\ _omeEdges[3] < _omeEdges[2]
    /\ _omegas[1] < _omegas[2]
    /\ \E key \in Keys :
          args.image_series_dict[key] # args.image_series_dict[ReferencePanel]

\* C10: etas is the extractor's array; every edge but the last lies half a
\* bin width below its center and the last edge half a bin width above the
\* last center; when the centers are one bin width apart each bin's upper
\* edge is the next bin's lower edge; centers 0, 1 degrees with width 1 degree
\* give edges -0.5, 0.5, 1.5 degrees.
C10_EtaAxis ==
    "_etaEdges" \in attrs =>
        LET n == Len(_etas)
            width == Radians(args.eta_step)
        IN  /\ _etas = args.etas
            /\ Len(_etaEdges) = n + 1
            /\ \A i \in 1..n : 2 * (_etas[i] - _etaEdges[i]) = width
            /\ 2 * (_etaEdges[n + 1] - _etas[n]) = width
            /\ (\A i \in 1..(n - 1) : _etas[i + 1] - _etas[i] = width)
               => \A i \in 1..n : 2 * (_etaEdges[i + 1] - _etas[i]) = width
            /\ (_etas = <<Radians(0), Radians(1)>> /\ args.eta_step = 1)
               => \A i \in 1..3 : 2 * _etaEdges[i] = Radians(2 * i - 3)

\* two bins whose centers are one bin width (2 degrees) apart
C10_Witness ==
    /\ result = "object"
    /\ Len(_etas) = 2
    /\ args.eta_step = 2
    /\ _etas[2] - _etas[1] = Radians(2)
    /\ _etaEdges[2] = _etas[1] + Radians(1)

\* the attributes the claim of read-only state is about
ExposedState == <<_dataStore, _etas, _etaEdges, _omegas, _omeEdges, _iHKLList, plane_data>>

\* C11: once the aggregator is constructed, no property read, no attempted
\* property assignment (it raises) and no save changes dataStore, etas,
\* etaEdges, omegas, omeEdges, iHKLList or the plane-data model.
C11_ReadOnly ==
    [][Constructed => UNCHANGED ExposedState]_vars

\* an archive holding the tagged wavelength was written, the model still
\* holds the bare wavelength, and a property was read afterwards
C11_Witness ==
    /\ Constructed
    /\ "maps.npz" \in DOMAIN files
    /\ files["maps.npz"].planeData_args[3].unit = "angstrom"
    /\ plane_data.wavelength = [value |-> 2]
    /\ ret.op = "dataStore"
    /\ Len(_dataStore) = 2

ArchiveKeys == {"dataStore", "etas", "etaEdges", "iHKLList", "omegas", "omeEdges",
                "planeData_args", "planeData_hkls"}

\* C12: every archive written by save has exactly the eight keys, and what
\* loading it gives for dataStore, etas, etaEdges, omegas, omeEdges and
\* iHKLList equals the aggregator's values, ring by ring and cell by cell,
\* NaN cells included; a save writes the one file named after its argument.
C12_RoundTrip ==
    /\ DOMAIN files \subseteq {NpzName(f) : f \in FileNames}
    /\ \A f \in DOMAIN files :
          /\ DOMAIN files[f] = ArchiveKeys
          /\ tolist(files[f].dataStore) = _dataStore
          /\ tolist(files[f].etas) = _etas
          /\ tolist(files[f].etaEdges) = _etaEdges
          /\ tolist(files[f].omegas) = _omegas
          /\ tolist(files[f].omeEdges) = _omeEdges
          /\ tolist(files[f].iHKLList) = iHKLList

\* two rings listed in descending order, one all NaN and one with data, were
\* saved under a name without the suffix
C12_Witness ==
    /\ ret.op = "save out"
    /\ "out.npz" \in DOMAIN files
    /\ files["out.npz"].iHKLList.data = <<1, 0>>
    /\ files["out.npz"].dataStore.shape = <<2, 1, 1>>
    /\ IsNaN(files["out.npz"].dataStore.data[1])
    /\ ~IsNaN(files["out.npz"].dataStore.data[2])

\* the configured period in radians
RadPeriod == <<Radians(args.ome_period[1]), Radians(args.ome_period[2])>>

\* C14: an angle inside the configured period is mapped to itself: frame
\* midpoints and frame starts of the reference panel that lie inside the
\* period appear unmapped in omegas and in the first n entries of omeEdges,
\* and mapping omegas and omeEdges a second time changes nothing.
C14_MapIdempotent ==
    "_omegas" \in attrs =>
        LET om == args.image_series_dict[ReferencePanel].omega
            n == Len(om)
        IN  /\ \A i \in 1..n :
                  /\ InPeriod(om[i][1] + om[i][2]) => _omegas[i] = om[i][1] + om[i][2]
                  /\ InPeriod(Radians(om[i][1])) => _omeEdges[i] = Radians(om[i][1])
                  /\ MapAngle(_omegas[i], RadPeriod) = _omegas[i]
            /\ \A i \in 1..(n + 1) : MapAngle(_omeEdges[i], RadPeriod) = _omeEdges[i]

\* frames (340,360), (360,380) with period [0,360): the first midpoint and
\* start lie inside the period and are kept, the second start is mapped to 0
C14_Witness ==
    /\ result = "object"
    /\ args.ome_period = <<0, 360>>
    /\ args.image_series_dict[ReferencePanel].omega = <<<<340, 360>>, <<360, 380>>>>
    /\ _omegas[1] = Radians(350)
    /\ _omeEdges = <<Radians(340), Radians(0), Radians(20)>>

\* calls 1..k were all read() with the default arguments
AllDefault(k) == \A j \in 1..k : calls[j].nskip = 0 /\ calls[j].nframes = 1

\* C15: on a fresh reader the k-th consecutive read() returns frame k-1 and
\* leaves iFrame = k-1; a single-frame read with nskip = s from iFrame = f
\* returns frame f+s+1 and leaves iFrame there, so the skip is not carried to
\* the next call; read_frames reads frames 0..nframes-1 once each, in order,
\* and its frame list has nframes entries.
C15_SequentialRead ==
    /\ \A k \in 1..Len(calls) :
          /\ AllDefault(k) =>
                /\ calls[k].ret = [kind |-> "frame", frames |-> <<k - 1>>]
                /\ calls[k].after = Scalar(k - 1)
          /\ calls[k].nframes = 1 =>
                LET f == Last(atleast_1d(calls[k].before))
                IN  /\ calls[k].ret.frames = <<f + calls[k].nskip + 1>>
                    /\ calls[k].after = Scalar(f + calls[k].nskip + 1)
    /\ rf_pc \in {"loop", "done"} =>
          /\ frame_list = range0(Len(frame_list))
          /\ Len(calls) = Len(frame_list)
          /\ \A k \in 1..Len(calls) : calls[k].ret.frames = <<k - 1>>
    /\ rf_pc = "done" => Len(frame_list) = rd_nframes

\* read(), read(nskip=1), read() on a series of four frames: frames 0, 2, 3
C15_Witness ==
    /\ Len(calls) = 3
    /\ calls[1].nskip = 0 /\ calls[2].nskip = 1 /\ calls[3].nskip = 0
    /\ \A k \in 1..3 : calls[k].nframes = 1
    /\ calls[1].ret.frames = <<0>>
    /\ calls[2].ret.frames = <<2>>
    /\ calls[3].ret.frames = <<3>>
    /\ iFrame = Scalar(3)

\* C16: after a combined multiframe read (nframes > 1, sumImg true or
\* callable) iFrame is a single value, the index of the last frame read,
\* unless that frame is the last of the series, and then iFrame is -1.
C16_CounterReset ==
    \A k \in 1..Len(calls) :
        (calls[k].nframes > 1 /\ calls[k].sumImg # "False") =>
            LET last == Last(calls[k].ret.frames)
            IN  calls[k].after = IF last + 1 = rd_nframes THEN Scalar(-1) ELSE Scalar(last)

IsLog(w) == disk[w.file].kind = "log"

\* C13: at no moment is a file open for writing by two different jobs; a
\* spots table or grain-data file is written by one job only and carries
\* that job's number in its name; a log file is written only by the process
\* whose number is in its name; the jobs only read the shared frame data.
C13_JobIsolation ==
    /\ \A h1, h2 \in open_w : h1.file = h2.file => h1.job = h2.job
    /\ \A w1, w2 \in writes :
          w1.file = w2.file =>
              IF IsLog(w1) THEN w1.proc = w2.proc ELSE w1.job = w2.job
    /\ \A w \in writes :
          IF IsLog(w) THEN w.file = LogName(w.proc)
          ELSE w.file \in {SpotsName(w.job), GrainsName(w.job)}
    /\ \A r \in reader_ops : r.op = "read"

\* two pool workers are inside pullSpots for different jobs at the same
\* time, and one of them is on the second job it logs to its file
C13_Witness ==
    /\ UsePool
    /\ \E h1, h2 \in open_w :
          /\ h1.job # h2.job
          /\ h1.proc # h2.proc
          /\ disk[h1.file].kind = "spots"
          /\ disk[h2.file].kind = "spots"
    /\ \E w1, w2 \in writes : w1.file = w2.file /\ IsLog(w1) /\ w1.job # w2.job
    /\ \A r \in reader_ops : r.op = "read"
    /\ reader_ops # {}

\* C17: the merge pass runs only when every job is done, with or without a
\* pool; it loads the grain-data file of job 0, 1, ... once each in that
\* order, and the combined file lists the grain ids in ascending order
\* whatever the order in which the jobs finished.
C17_MergeOrdering ==
    /\ main_pc \in {"merge", "done"} => \A j \in Jobs : job_state[j] = "done"
    /\ main_pc # "IOError"
    /\ merge_reads = [k \in 1..Len(merge_reads) |-> GrainsName(k - 1)]
    /\ grains_out = [k \in 1..Len(grains_out) |-> k - 1]
    /\ main_pc = "done" => (Len(merge_reads) = nquats /\ Len(grains_out) = nquats)

\* with a pool, job 2 was the first the main loop saw finished, and the
\* combined file still lists 0, 1, 2
C17_Witness ==
    /\ main_pc = "done"
    /\ UsePool
    /\ nquats = 3
    /\ completed[1] = 2
    /\ grains_out = <<0, 1, 2>>

====
